---------------------------- MODULE Spec2Model ----------------------------
(***************************************************************************)
(* A model of trace_analyzer.py: the line parser (parse_line and the       *)
(* timestamp parser of TraceEntry), the interval matcher (process_entry,   *)
(* process_exit over open_entries and completed_pairs), the driver loop    *)
(* (analyze_file) and the report (report_results).                         *)
(*                                                                         *)
(* Text is modelled as a sequence of one-character strings, so that        *)
(* str.split(), substring containment and str.isdigit() are computed and   *)
(* not assumed.  Python objects that are mutated in place (the dict        *)
(* open_entries, the list completed_pairs) live in a heap and an analyzer  *)
(* instance holds references to them, as in Python.  Times are integers    *)
(* in microseconds, the resolution of datetime; a duration is the          *)
(* timedelta's total_seconds() scaled by 10^6.                             *)
(***************************************************************************)
EXTENDS Integers, Sequences, FiniteSets, TLC

(***************************************************************************)
(* Bounds of the model and the inputs the file may hold.                   *)
(***************************************************************************)
\* The longest file read in the matching runs and in the parsing runs: the
\* number of lines before end of file.
MaxLines == 4
MaxParseLines == 2

\* The thread identifiers that occur in the file (regex group 2, \w+).
Threads == {"T1", "T2"}

\* "d E" and "d R" stand for "doRequest ENTRY" and "doRequest RETURN";
\* "E" and "R" for the second documented example, "ENTRY" and "RETURN".
S_dE == <<"d", " ", "E">>
S_dR == <<"d", " ", "R">>
S_E == <<"E">>
S_R == <<"R">>
S_xy == <<"x", " ", "y">>
S_dEdR == <<"d", " ", "E", " ", "d", " ", "R">>
S_ER == <<"E", "R">>

\* Timestamp tokens "[M/D/YY, HH:MM:SS:f TZ]".  month is M; sec stands for
\* the D/YY, HH:MM:SS part counted in seconds; frac is the digit string f;
\* tz tells whether a " TZ" suffix follows.  All well-formed tokens of the
\* model lie in month 1, so month takes no part in the value.
Tok(month, sec, frac, tz) == [month |-> month, sec |-> sec, frac |-> frac, tz |-> tz]
Tok0 == Tok(1, 0, <<0, 0, 0>>, TRUE)
Tok1 == Tok(1, 1, <<0, 0, 0>>, TRUE)
TokBadMonth == Tok(13, 0, <<0, 0, 0>>, TRUE)
GoodTokens == {Tok0, Tok1}

(***************************************************************************)
(* str helpers.                                                            *)
(***************************************************************************)
Digits == {"0", "1", "2", "3", "4", "5", "6", "7", "8", "9"}

\* str.isdigit(): non-empty and every character a digit.
isdigit(s) == Len(s) > 0 /\ \A i \in 1..Len(s) : s[i] \in Digits

\* pattern in text: substring containment (the empty pattern is in every text).
contains(pattern, text) ==
    \E i \in 1..(Len(text) - Len(pattern) + 1) :
        SubSeq(text, i, i + Len(pattern) - 1) = pattern

\* str.split(): the maximal runs of non-whitespace characters, in order.
RECURSIVE splitFrom(_, _, _)
splitFrom(s, i, word) ==
    IF i > Len(s)
    THEN IF word = <<>> THEN <<>> ELSE <<word>>
    ELSE IF s[i] = " "
         THEN (IF word = <<>> THEN <<>> ELSE <<word>>) \o splitFrom(s, i + 1, <<>>)
         ELSE splitFrom(s, i + 1, Append(word, s[i]))

split(s) == splitFrom(s, 1, <<>>)

(***************************************************************************)
(* TraceEntry and its timestamp parser.                                    *)
(***************************************************************************)
\* 10^n, for the %f directive.
RECURSIVE Pow10(_)
Pow10(n) == IF n = 0 THEN 1 ELSE 10 * Pow10(n - 1)

\* The value of a digit string.
RECURSIVE DigitsValue(_)
DigitsValue(ds) ==
    IF ds = <<>> THEN 0
    ELSE 10 * DigitsValue(SubSeq(ds, 1, Len(ds) - 1)) + ds[Len(ds)]

\* Whether strptime(clean_ts, "%m/%d/%y, %H:%M:%S:%f") succeeds: without a
\* " TZ" suffix rsplit(' ', 1)[0] cuts the time off and the format fails; %m
\* takes 1..12; %f takes one to six digits.
strptime_ok(timestamp_str) ==
    /\ timestamp_str.tz
    /\ timestamp_str.month \in 1..12
    /\ Len(timestamp_str.frac) \in 1..6

\* The datetime, in microseconds: %f pads the fraction on the right.
_parse_timestamp(timestamp_str) ==
    timestamp_str.sec * 1000000
        + DigitsValue(timestamp_str.frac) * Pow10(6 - Len(timestamp_str.frac))

\* The constructed object.  line_num stands for the object's identity (two
\* equal lines of a file give two objects); it is the position of raw_line.
TraceEntry(timestamp_str, thread_id, method_name, entry_type, line_num) ==
    [timestamp_str |-> timestamp_str,
     thread_id |-> thread_id,
     method_name |-> method_name,
     entry_type |-> entry_type,
     line_num |-> line_num,
     timestamp |-> _parse_timestamp(timestamp_str)]

(***************************************************************************)
(* Lines of the file.  A line is                                           *)
(*     lead whitespace, prefix[1] "|" ... prefix[n] "|", gap whitespace,   *)
(*     body, newline                                                       *)
(* where no prefix segment holds a "|".  body is "blank" (nothing),        *)
(* "other" (text that trace_pattern does not match at its start) or        *)
(* "trace" (text that trace_pattern matches, with the groups               *)
(* timestamp_str, thread_id and rest_of_line).  rest_of_line begins and    *)
(* ends with a non-blank character: \s+ is greedy and the line is          *)
(* stripped.                                                               *)
(***************************************************************************)
Line(lead, prefix, gap, body, timestamp_str, thread_id, rest_of_line) ==
    [lead |-> lead, prefix |-> prefix, gap |-> gap, body |-> body,
     timestamp_str |-> timestamp_str, thread_id |-> thread_id,
     rest_of_line |-> rest_of_line]

TraceLine(timestamp_str, thread_id, rest_of_line) ==
    Line(0, <<>>, 0, "trace", timestamp_str, thread_id, rest_of_line)

\* The lines with a well-formed timestamp and one of the two documented tails.
EventLines ==
    {TraceLine(ts, t, rest) : ts \in GoodTokens, t \in Threads, rest \in {S_dE, S_dR}}

\* The lines of the matching runs: the event lines, a line that is skipped
\* and a line whose timestamp does not parse.
Lines ==
    EventLines \cup { Line(0, << >>, 0, "other", Tok0, "T1", S_xy),
                      TraceLine(TokBadMonth, "T1", S_dE) }

\* The lines of the parsing runs: every path of parse_line.
ParseLines ==
    Lines \cup
    { Line(0, << >>, 0, "blank", Tok0, "T1", S_xy),
      Line(1, << >>, 1, "trace", Tok0, "T1", S_dE),
      Line(0, << <<"5">> >>, 0, "trace", Tok0, "T1", S_dE),
      Line(0, << <<"5">> >>, 1, "trace", Tok0, "T1", S_dE),
      Line(0, << <<"5">>, <<"7">> >>, 0, "trace", Tok0, "T1", S_dE),
      Line(0, << <<"x">> >>, 0, "trace", Tok0, "T1", S_dE),
      TraceLine(TokBadMonth, "T1", S_dR),
      TraceLine(TokBadMonth, "T1", S_xy),
      TraceLine(TokBadMonth, "T1", S_E),
      TraceLine(Tok(1, 0, <<0, 0, 0>>, FALSE), "T1", S_dE),
      TraceLine(Tok(1, 0, <<5>>, TRUE), "T1", S_dR),
      TraceLine(Tok0, "T1", S_dEdR),
      TraceLine(TokBadMonth, "T1", S_dEdR),
      TraceLine(Tok0, "T1", S_ER),
      TraceLine(Tok0, "T1", S_E),
      TraceLine(Tok0, "T1", S_xy) }

(***************************************************************************)
(* parse_line.                                                             *)
(***************************************************************************)
\* The removal of a line number left out: the text is only stripped.
strip_only(line) ==
    IF line.prefix = <<>>
    THEN [prefix |-> <<>>, gap |-> 0]
    ELSE [prefix |-> line.prefix, gap |-> line.gap]

\* line.strip(), then the removal of a line number: the text is returned as
\* the prefix segments still before the body and the whitespace left
\* directly before the body.  strip() takes the lead, and the gap too when
\* no segment stands between them; "5|" is cut only when the first segment
\* (without the lead) is all digits, and the gap after it then stays.
strip_line_number(line) ==
    IF line.prefix = <<>>
    THEN [prefix |-> <<>>, gap |-> 0]
    ELSE IF isdigit(line.prefix[1])
         THEN [prefix |-> Tail(line.prefix), gap |-> line.gap]
         ELSE [prefix |-> line.prefix, gap |-> line.gap]

\* trace_pattern.match(line): re.match anchors at the start of the text.
trace_pattern_match(line) ==
    LET rest == strip_line_number(line)
    IN  rest.prefix = <<>> /\ rest.gap = 0 /\ line.body = "trace"

\* The method name read from the line: the last word of its tail.
_extract_method_name_from_line(line, pattern) ==
    LET words == split(line)
    IN  IF words # <<>> THEN words[Len(words)] ELSE <<"?">>

\* The first word of the pattern, or "unknown"; the line is not read.
_extract_method_name(line, pattern) ==
    LET words == split(pattern)
    IN  IF words # <<>> THEN words[1] ELSE <<"u", "n", "k", "n", "o", "w", "n">>

\* The outcomes of a call: a returned value, None, or a raised ValueError.
Returned(entry) == [raised |-> FALSE, value |-> <<entry>>]
None == [raised |-> FALSE, value |-> <<>>]
ValueError == [raised |-> TRUE, value |-> <<>>]

\* The constructor's ValueError caught and the line skipped.
NewTraceEntrySkip(timestamp_str, thread_id, method_name, entry_type, line_num) ==
    IF strptime_ok(timestamp_str)
    THEN Returned(TraceEntry(timestamp_str, thread_id, method_name, entry_type, line_num))
    ELSE None

\* TraceEntry(...) as called from parse_line: the constructor parses the
\* timestamp and strptime's ValueError leaves parse_line.
NewTraceEntry(timestamp_str, thread_id, method_name, entry_type, line_num) ==
    IF strptime_ok(timestamp_str)
    THEN Returned(TraceEntry(timestamp_str, thread_id, method_name, entry_type, line_num))
    ELSE ValueError

\* parse_line with the exit pattern looked for first.
parse_line_exit_first(self, line, line_num) ==
    IF line.prefix = <<>> /\ line.body = "blank" THEN None
    ELSE IF ~trace_pattern_match(line) THEN None
    ELSE IF Len(split(line.rest_of_line)) < 2 THEN None
    ELSE IF contains(self.exit_pattern, line.rest_of_line)
         THEN NewTraceEntry(line.timestamp_str, line.thread_id,
                            _extract_method_name(line.rest_of_line, self.exit_pattern),
                            "EXIT", line_num)
    ELSE IF contains(self.entry_pattern, line.rest_of_line)
         THEN NewTraceEntry(line.timestamp_str, line.thread_id,
                            _extract_method_name(line.rest_of_line, self.entry_pattern),
                            "ENTRY", line_num)
    ELSE None

parse_line(self, line, line_num) ==
    IF line.prefix = <<>> /\ line.body = "blank" THEN None
    ELSE IF ~trace_pattern_match(line) THEN None
    ELSE IF Len(split(line.rest_of_line)) < 2 THEN None
    ELSE IF contains(self.entry_pattern, line.rest_of_line)
         THEN NewTraceEntry(line.timestamp_str, line.thread_id,
                            _extract_method_name(line.rest_of_line, self.entry_pattern),
                            "ENTRY", line_num)
    ELSE IF contains(self.exit_pattern, line.rest_of_line)
         THEN NewTraceEntry(line.timestamp_str, line.thread_id,
                            _extract_method_name(line.rest_of_line, self.exit_pattern),
                            "EXIT", line_num)
    ELSE None

(***************************************************************************)
(* The heap and the analyzer object.                                       *)
(***************************************************************************)
\* A dict is a function on its keys; {} is the function with no key.
EmptyDict == << >>

DictSet(d, k, v) == [x \in (DOMAIN d) \cup {k} |-> IF x = k THEN v ELSE d[x]]

DictDel(d, k) == [x \in (DOMAIN d) \ {k} |-> d[x]]

\* A fresh reference: the heap's objects are numbered from 1.
NewRef(h) == Cardinality(DOMAIN h) + 1

Alloc(h, value) == [r \in (DOMAIN h) \cup {NewRef(h)} |-> IF r \in DOMAIN h THEN h[r] ELSE value]

\* __init__: the patterns and the threshold are kept, and a new dict and a
\* new list are made for this instance.  The result is the instance and the
\* heap that holds its two objects.
TraceAnalyzerShared(h, entry_pattern, exit_pattern, threshold_seconds) ==
    LET open_ref == IF 1 \in DOMAIN h THEN 1 ELSE NewRef(h)
        h1 == IF 1 \in DOMAIN h THEN h ELSE Alloc(h, EmptyDict)
    IN  [self |-> [entry_pattern |-> entry_pattern,
                   exit_pattern |-> exit_pattern,
                   threshold_seconds |-> threshold_seconds,
                   open_entries |-> open_ref,
                   completed_pairs |-> NewRef(h1)],
         heap |-> Alloc(h1, << >>)]

TraceAnalyzer(h, entry_pattern, exit_pattern, threshold_seconds) ==
    LET h1 == Alloc(h, EmptyDict)
    IN  [self |-> [entry_pattern |-> entry_pattern,
                   exit_pattern |-> exit_pattern,
                   threshold_seconds |-> threshold_seconds,
                   open_entries |-> NewRef(h),
                   completed_pairs |-> NewRef(h1)],
         heap |-> Alloc(h1, << >>)]

(***************************************************************************)
(* The interval matcher.  Both operations mutate the instance's objects    *)
(* in the heap h and give the heap afterwards.                             *)
(***************************************************************************)
\* process_entry without the overwrite: an entry already open is kept.
process_entry_keep_first(h, self, entry) ==
    LET open_entries == h[self.open_entries]
        made == IF entry.thread_id \notin DOMAIN open_entries
                THEN DictSet(open_entries, entry.thread_id, EmptyDict)
                ELSE open_entries
        methods == IF entry.method_name \in DOMAIN made[entry.thread_id]
                   THEN made[entry.thread_id]
                   ELSE DictSet(made[entry.thread_id], entry.method_name, entry)
    IN  [h EXCEPT ![self.open_entries] = DictSet(made, entry.thread_id, methods)]

process_entry(h, self, entry) ==
    LET open_entries == h[self.open_entries]
        made == IF entry.thread_id \notin DOMAIN open_entries
                THEN DictSet(open_entries, entry.thread_id, EmptyDict)
                ELSE open_entries
        methods == DictSet(made[entry.thread_id], entry.method_name, entry)
    IN  [h EXCEPT ![self.open_entries] = DictSet(made, entry.thread_id, methods)]

\* The difference as a magnitude: the order of the two timestamps is lost.
time_diff_abs(entry_trace, exit_entry) ==
    IF exit_entry.timestamp >= entry_trace.timestamp
    THEN exit_entry.timestamp - entry_trace.timestamp
    ELSE entry_trace.timestamp - exit_entry.timestamp

\* The difference taken the wrong way round.
time_diff_reversed(entry_trace, exit_entry) == entry_trace.timestamp - exit_entry.timestamp

\* (exit_entry.timestamp - entry_trace.timestamp).total_seconds(), in
\* microseconds.
time_diff(entry_trace, exit_entry) == exit_entry.timestamp - entry_trace.timestamp

\* process_exit over a defaultdict: looking the thread up makes its dict.
process_exit_defaultdict(h, self, exit_entry) ==
    LET open_entries == h[self.open_entries]
        thread_id == exit_entry.thread_id
        method_name == exit_entry.method_name
    IN  IF thread_id \in DOMAIN open_entries
           /\ method_name \in DOMAIN open_entries[thread_id]
        THEN LET entry_trace == open_entries[thread_id][method_name]
                 pair == <<entry_trace, exit_entry, time_diff(entry_trace, exit_entry)>>
                 methods == DictDel(open_entries[thread_id], method_name)
                 after == IF DOMAIN methods = {}
                          THEN DictDel(open_entries, thread_id)
                          ELSE DictSet(open_entries, thread_id, methods)
             IN  [h EXCEPT ![self.completed_pairs] = Append(@, pair),
                           ![self.open_entries] = after]
        ELSE IF thread_id \in DOMAIN open_entries THEN h
             ELSE [h EXCEPT ![self.open_entries] = DictSet(open_entries, thread_id, EmptyDict)]

\* process_exit keyed by the method alone: the entry of any thread that has
\* the method open is taken.
process_exit_any_thread(h, self, exit_entry) ==
    LET open_entries == h[self.open_entries]
        method_name == exit_entry.method_name
        holders == {t \in DOMAIN open_entries : method_name \in DOMAIN open_entries[t]}
    IN  IF holders # {}
        THEN LET thread_id == CHOOSE t \in holders : TRUE
                 entry_trace == open_entries[thread_id][method_name]
                 pair == <<entry_trace, exit_entry, time_diff(entry_trace, exit_entry)>>
                 methods == DictDel(open_entries[thread_id], method_name)
                 after == IF DOMAIN methods = {}
                          THEN DictDel(open_entries, thread_id)
                          ELSE DictSet(open_entries, thread_id, methods)
             IN  [h EXCEPT ![self.completed_pairs] = Append(@, pair),
                           ![self.open_entries] = after]
        ELSE h

\* process_exit with the pair put at the head of the list.
process_exit_insert_front(h, self, exit_entry) ==
    LET open_entries == h[self.open_entries]
        thread_id == exit_entry.thread_id
        method_name == exit_entry.method_name
    IN  IF thread_id \in DOMAIN open_entries
           /\ method_name \in DOMAIN open_entries[thread_id]
        THEN LET entry_trace == open_entries[thread_id][method_name]
                 pair == <<entry_trace, exit_entry, time_diff(entry_trace, exit_entry)>>
                 methods == DictDel(open_entries[thread_id], method_name)
                 after == IF DOMAIN methods = {}
                          THEN DictDel(open_entries, thread_id)
                          ELSE DictSet(open_entries, thread_id, methods)
             IN  [h EXCEPT ![self.completed_pairs] = <<pair>> \o @,
                           ![self.open_entries] = after]
        ELSE h

\* process_exit that takes any open entry of the thread, whatever its
\* method name.
process_exit_any_method(h, self, exit_entry) ==
    LET open_entries == h[self.open_entries]
        thread_id == exit_entry.thread_id
    IN  IF thread_id \in DOMAIN open_entries /\ DOMAIN open_entries[thread_id] # {}
        THEN LET method_name == CHOOSE m \in DOMAIN open_entries[thread_id] : TRUE
                 entry_trace == open_entries[thread_id][method_name]
                 pair == <<entry_trace, exit_entry, time_diff(entry_trace, exit_entry)>>
                 methods == DictDel(open_entries[thread_id], method_name)
                 after == IF DOMAIN methods = {}
                          THEN DictDel(open_entries, thread_id)
                          ELSE DictSet(open_entries, thread_id, methods)
             IN  [h EXCEPT ![self.completed_pairs] = Append(@, pair),
                           ![self.open_entries] = after]
        ELSE h

\* process_exit without the removal of a thread whose last method matched.
process_exit_keep_empty(h, self, exit_entry) ==
    LET open_entries == h[self.open_entries]
        thread_id == exit_entry.thread_id
        method_name == exit_entry.method_name
    IN  IF thread_id \in DOMAIN open_entries
           /\ method_name \in DOMAIN open_entries[thread_id]
        THEN LET entry_trace == open_entries[thread_id][method_name]
                 pair == <<entry_trace, exit_entry, time_diff(entry_trace, exit_entry)>>
                 methods == DictDel(open_entries[thread_id], method_name)
             IN  [h EXCEPT ![self.completed_pairs] = Append(@, pair),
                           ![self.open_entries] = DictSet(open_entries, thread_id, methods)]
        ELSE h

\* process_exit without the removal of the matched entry.
process_exit_no_del(h, self, exit_entry) ==
    LET open_entries == h[self.open_entries]
        thread_id == exit_entry.thread_id
        method_name == exit_entry.method_name
    IN  IF thread_id \in DOMAIN open_entries
           /\ method_name \in DOMAIN open_entries[thread_id]
        THEN LET entry_trace == open_entries[thread_id][method_name]
                 pair == <<entry_trace, exit_entry, time_diff(entry_trace, exit_entry)>>
             IN  [h EXCEPT ![self.completed_pairs] = Append(@, pair)]
        ELSE h

process_exit(h, self, exit_entry) ==
    LET open_entries == h[self.open_entries]
        thread_id == exit_entry.thread_id
        method_name == exit_entry.method_name
    IN  IF thread_id \in DOMAIN open_entries
           /\ method_name \in DOMAIN open_entries[thread_id]
        THEN LET entry_trace == open_entries[thread_id][method_name]
                 pair == <<entry_trace, exit_entry, time_diff(entry_trace, exit_entry)>>
                 methods == DictDel(open_entries[thread_id], method_name)
                 after == IF DOMAIN methods = {}
                          THEN DictDel(open_entries, thread_id)
                          ELSE DictSet(open_entries, thread_id, methods)
             IN  [h EXCEPT ![self.completed_pairs] = Append(@, pair),
                           ![self.open_entries] = after]
        ELSE h

(***************************************************************************)
(* report_results.                                                         *)
(***************************************************************************)
\* The filter with > in place of >=.
slow_operations_strict(completed_pairs, threshold_seconds) ==
    SelectSeq(completed_pairs, LAMBDA pair : pair[3] > threshold_seconds)

\* The pairs at or over the threshold, in the order of completed_pairs.
slow_operations(completed_pairs, threshold_seconds) ==
    SelectSeq(completed_pairs, LAMBDA pair : pair[3] >= threshold_seconds)

\* An ascending sort turned round: pairs of equal duration change places.
RECURSIVE sorted_then_reversed(_)
sorted_then_reversed(pairs) ==
    IF pairs = << >> THEN << >>
    ELSE LET placed == sorted_then_reversed(SubSeq(pairs, 1, Len(pairs) - 1))
             pair == pairs[Len(pairs)]
             ahead == Cardinality({i \in 1..Len(placed) : placed[i][3] > pair[3]})
         IN  SubSeq(placed, 1, ahead) \o <<pair>> \o SubSeq(placed, ahead + 1, Len(placed))

\* sorted(..., key=lambda x: x[2], reverse=True): a stable sort, so pairs of
\* equal duration keep their order.  Each pair is put behind every pair
\* already placed whose duration is at least its own.
RECURSIVE sorted_reverse(_)
sorted_reverse(pairs) ==
    IF pairs = << >> THEN << >>
    ELSE LET placed == sorted_reverse(SubSeq(pairs, 1, Len(pairs) - 1))
             pair == pairs[Len(pairs)]
             ahead == Cardinality({i \in 1..Len(placed) : placed[i][3] >= pair[3]})
         IN  SubSeq(placed, 1, ahead) \o <<pair>> \o SubSeq(placed, ahead + 1, Len(placed))

\* sum(len(methods) for methods in self.open_entries.values())
RECURSIVE sum_len(_, _)
sum_len(open_entries, threads) ==
    IF threads = {} THEN 0
    ELSE LET t == CHOOSE t \in threads : TRUE
         IN  Cardinality(DOMAIN open_entries[t]) + sum_len(open_entries, threads \ {t})

unmatched_count(open_entries) == sum_len(open_entries, DOMAIN open_entries)

\* len(self.completed_pairs), as printed in the first line of the report.
total_pairs(completed_pairs) == Len(completed_pairs)

\* min, max and sum over the durations of every completed pair.
RECURSIVE min_duration(_)
min_duration(pairs) ==
    IF Len(pairs) = 1 THEN pairs[1][3]
    ELSE LET m == min_duration(Tail(pairs))
         IN  IF pairs[1][3] < m THEN pairs[1][3] ELSE m

RECURSIVE max_duration(_)
max_duration(pairs) ==
    IF Len(pairs) = 1 THEN pairs[1][3]
    ELSE LET m == max_duration(Tail(pairs))
         IN  IF pairs[1][3] > m THEN pairs[1][3] ELSE m

RECURSIVE sum_duration(_)
sum_duration(pairs) ==
    IF pairs = << >> THEN 0 ELSE pairs[1][3] + sum_duration(Tail(pairs))

\* report_results with the statistics taken over the slow pairs alone.
report_results_slow_statistics(h, self) ==
    LET completed_pairs == h[self.completed_pairs]
        open_entries == h[self.open_entries]
        slow == slow_operations(completed_pairs, self.threshold_seconds)
    IN  [total_pairs |-> total_pairs(completed_pairs),
         slow |-> sorted_reverse(slow),
         unmatched_count |-> unmatched_count(open_entries),
         statistics |-> IF slow # << >>
                        THEN << [minimum |-> min_duration(slow),
                                 maximum |-> max_duration(slow),
                                 sum |-> sum_duration(slow),
                                 count |-> Len(slow)] >>
                        ELSE << >>]

\* What report_results prints: the count of pairs, the slow pairs in the
\* order of their rows, the unmatched count (the warning is printed when it
\* is over 0) and, when a pair completed, the statistics; the average is
\* kept as the sum and the count it divides.
report_results(h, self) ==
    LET completed_pairs == h[self.completed_pairs]
        open_entries == h[self.open_entries]
    IN  [total_pairs |-> total_pairs(completed_pairs),
         slow |-> sorted_reverse(slow_operations(completed_pairs, self.threshold_seconds)),
         unmatched_count |-> unmatched_count(open_entries),
         statistics |-> IF completed_pairs # << >>
                        THEN << [minimum |-> min_duration(completed_pairs),
                                 maximum |-> max_duration(completed_pairs),
                                 sum |-> sum_duration(completed_pairs),
                                 count |-> Len(completed_pairs)] >>
                        ELSE << >>]

(***************************************************************************)
(* The program: main() makes one analyzer, analyze_file reads the file a   *)
(* line at a time and report_results prints the report.                    *)
(***************************************************************************)
VARIABLES
    heap,        \* the mutable objects: reference -> dict or list
    analyzers,   \* the TraceAnalyzer instances made, in order
    pc,          \* "analyze_file", "returned" (main ended) or "sys_exit_1"
    line_num,    \* analyze_file's counter of lines read
    line,        \* analyze_file's loop variable: the line read last
    events,      \* history: the entries parse_line returned to analyzers[1]
    report       \* what report_results printed, per instance

vars == <<heap, analyzers, pc, line_num, line, events, report>>

\* The command lines: --entry, --exit and --threshold (in microseconds).
Configs ==
    { <<S_dE, S_dR>>, <<S_E, S_R>> }

Thresholds == {0, 1000000}

\* Before the first line is read nothing is bound to line.
NoLine == Line(0, << >>, 0, "blank", Tok0, "T1", S_xy)

\* main(): analyzer = TraceAnalyzer(args.entry, args.exit, args.threshold)
Init ==
    \E config \in Configs, threshold \in Thresholds :
        LET made == TraceAnalyzer(<< >>, config[1], config[2], threshold)
        IN  /\ heap = made.heap
            /\ analyzers = <<made.self>>
            /\ pc = "analyze_file"
            /\ line_num = 0
            /\ line = NoLine
            /\ events = << >>
            /\ report = << >>

\* The body of the loop of analyze_file for one instance: parse the line and
\* hand the entry to process_entry or process_exit.
analyze_line(h, self, l, n) ==
    LET entry == parse_line(self, l, n)
    IN  IF entry.raised \/ entry.value = << >> THEN h
        ELSE IF entry.value[1].entry_type = "ENTRY"
             THEN process_entry(h, self, entry.value[1])
             ELSE process_exit(h, self, entry.value[1])

\* Every instance made is fed the line, one after the other.
RECURSIVE analyze_line_all(_, _, _, _, _)
analyze_line_all(h, selves, i, l, n) ==
    IF i > Len(selves) THEN h
    ELSE analyze_line_all(analyze_line(h, selves[i], l, n), selves, i + 1, l, n)

\* One turn of "for line in file": an exception leaves the loop, is printed
\* and ends the process with status 1.
analyze_file(l) ==
    /\ pc = "analyze_file"
    /\ line_num' = line_num + 1
    /\ line' = l
    /\ LET entry == parse_line(analyzers[1], l, line_num + 1)
       IN  IF entry.raised
           THEN /\ pc' = "sys_exit_1"
                /\ UNCHANGED <<heap, events>>
           ELSE /\ pc' = pc
                /\ heap' = analyze_line_all(heap, analyzers, 1, l, line_num + 1)
                /\ events' = IF entry.value = << >> THEN events
                             ELSE Append(events, entry.value[1])
    /\ UNCHANGED <<analyzers, report>>

\* End of file: analyze_file returns and main calls report_results.
main_report ==
    /\ pc = "analyze_file"
    /\ pc' = "returned"
    /\ report' = [i \in 1..Len(analyzers) |-> report_results(heap, analyzers[i])]
    /\ UNCHANGED <<heap, analyzers, line_num, line, events>>

\* The matching runs: files of up to MaxLines lines drawn from Lines.
Next ==
    \/ \E l \in Lines : line_num < MaxLines /\ analyze_file(l)
    \/ main_report

Spec == Init /\ [][Next]_vars

\* The parsing runs: files of up to MaxParseLines lines drawn from ParseLines.
\* The parsing runs also take an empty --exit pattern, which argparse
\* accepts: it is in every tail and has no first word.
ParseConfigs == Configs \cup {<<S_dE, << >>>>}

InitParse ==
    \E config \in ParseConfigs, threshold \in Thresholds :
        LET made == TraceAnalyzer(<< >>, config[1], config[2], threshold)
        IN  /\ heap = made.heap
            /\ analyzers = <<made.self>>
            /\ pc = "analyze_file"
            /\ line_num = 0
            /\ line = NoLine
            /\ events = << >>
            /\ report = << >>

NextParse ==
    \/ \E l \in ParseLines : line_num < MaxParseLines /\ analyze_file(l)
    \/ main_report

SpecParse == InitParse /\ [][NextParse]_vars

\* The replay runs: two instances are made, one after the other, and every
\* line of the file is fed to both.
InitReplay ==
    \E config \in Configs, threshold \in Thresholds :
        LET first == TraceAnalyzer(<< >>, config[1], config[2], threshold)
            second == TraceAnalyzer(first.heap, config[1], config[2], threshold)
        IN  /\ heap = second.heap
            /\ analyzers = <<first.self, second.self>>
            /\ pc = "analyze_file"
            /\ line_num = 0
            /\ line = NoLine
            /\ events = << >>
            /\ report = << >>

SpecReplay == InitReplay /\ [][Next]_vars

(***************************************************************************)
(* Vocabulary of the claims.  events is the input as the matcher saw it:   *)
(* the Entry and Exit events in input order.                               *)
(***************************************************************************)
\* The state of the analyzer that main() made.
OpenEntries == heap[analyzers[1].open_entries]
CompletedPairs == heap[analyzers[1].completed_pairs]

IsEntry(i) == events[i].entry_type = "ENTRY"
IsExit(i) == events[i].entry_type = "EXIT"

SameKey(a, b) == a.thread_id = b.thread_id /\ a.method_name = b.method_name

\* No event of the given type and of the key of events[i] lies strictly
\* between positions i and j.
NoneBetween(i, j, type) ==
    \A k \in (i + 1)..(j - 1) :
        ~(events[k].entry_type = type /\ SameKey(events[k], events[i]))

\* events[i] is an Entry that a later Entry of its key follows with no Exit
\* of the key between them.
Overwritten(i) ==
    /\ IsEntry(i)
    /\ \E j \in (i + 1)..Len(events) :
           IsEntry(j) /\ SameKey(events[i], events[j]) /\ NoneBetween(i, j, "EXIT")

\* The event is the entry side (side 1) or the exit side (side 2) of a pair.
InPair(e, side) == \E p \in 1..Len(CompletedPairs) : CompletedPairs[p][side] = e

\* The key (thread_id, method_name) has an open entry in the table.
KeyOpen(open_entries, e) ==
    e.thread_id \in DOMAIN open_entries
        /\ e.method_name \in DOMAIN open_entries[e.thread_id]

\* The keys of the open-entry table.
OpenKeys(open_entries) ==
    {<<t, m>> \in UNION {{t} \X DOMAIN open_entries[t] : t \in DOMAIN open_entries} : TRUE}

(***************************************************************************)
(* The claims.                                                             *)
(***************************************************************************)
\* C1, as stated: of two Entry events of one key with no Exit between them
\* only the second can be matched; the first is in no completed interval
\* and counts toward unmatched_count, so that at end of input
\* unmatched_count is the number of Entry events in no completed interval.
C1_OverwriteCounted ==
    /\ \A i \in 1..Len(events) : Overwritten(i) => ~InPair(events[i], 1)
    /\ pc = "returned" =>
           report[1].unmatched_count =
               Cardinality({i \in 1..Len(events) : IsEntry(i) /\ ~InPair(events[i], 1)})

\* C1, amended: of two Entry events of one key with no Exit between them
\* only the second can be matched: the first is in no completed interval,
\* and an Exit of the key that follows the second with no event of the key
\* between is paired with the second.  The first does not count toward
\* unmatched_count: at end of input unmatched_count is the number of Entry
\* events in no completed interval less the overwritten ones.
C1_OverwriteLaw ==
    /\ \A i \in 1..Len(events) : Overwritten(i) => ~InPair(events[i], 1)
    /\ \A i \in 1..Len(events) : \A j \in (i + 1)..Len(events) : \A k \in (j + 1)..Len(events) :
           ( /\ IsEntry(i) /\ IsEntry(j) /\ IsExit(k)
             /\ SameKey(events[i], events[j]) /\ SameKey(events[j], events[k])
             /\ NoneBetween(i, j, "EXIT")
             /\ NoneBetween(j, k, "ENTRY") /\ NoneBetween(j, k, "EXIT") )
           => \E p \in 1..Len(CompletedPairs) :
                  CompletedPairs[p][1] = events[j] /\ CompletedPairs[p][2] = events[k]
    /\ pc = "returned" =>
           report[1].unmatched_count =
               Cardinality({i \in 1..Len(events) : IsEntry(i) /\ ~InPair(events[i], 1)})
                   - Cardinality({i \in 1..Len(events) : Overwritten(i)})

\* C1, witness: the run ended after an Entry was overwritten and the Entry
\* that overwrote it was matched by an Exit.
C1_Witness ==
    /\ pc = "returned"
    /\ \E i \in 1..Len(events) : \E j \in (i + 1)..Len(events) :
           /\ Overwritten(i) /\ IsEntry(j) /\ SameKey(events[i], events[j])
           /\ InPair(events[j], 1)

\* C2, as stated: every Entry e and later Exit x of one key with no Entry of
\* the key between them give exactly one completed interval (e, x), of
\* duration x.timestamp - e.timestamp.
C2_EveryLaterExit ==
    \A i \in 1..Len(events) : \A j \in (i + 1)..Len(events) :
        (IsEntry(i) /\ IsExit(j) /\ SameKey(events[i], events[j]) /\ NoneBetween(i, j, "ENTRY"))
        => Cardinality({p \in 1..Len(CompletedPairs) :
                           CompletedPairs[p] = <<events[i], events[j],
                                                 events[j].timestamp - events[i].timestamp>>}) = 1

\* C2, amended: every Entry e and later Exit x of one key with no Entry and
\* no Exit of the key between them give exactly one completed interval
\* (e, x), of duration x.timestamp - e.timestamp.
C2_FirstLaterExit ==
    \A i \in 1..Len(events) : \A j \in (i + 1)..Len(events) :
        ( /\ IsEntry(i) /\ IsExit(j) /\ SameKey(events[i], events[j])
          /\ NoneBetween(i, j, "ENTRY") /\ NoneBetween(i, j, "EXIT") )
        => Cardinality({p \in 1..Len(CompletedPairs) :
                           CompletedPairs[p] = <<events[i], events[j],
                                                 events[j].timestamp - events[i].timestamp>>}) = 1

\* C2, witness: an Entry, the Exit that matched it a second later, and a
\* second Exit of the key after it.
C2_Witness ==
    \E i \in 1..Len(events) : \E j \in (i + 1)..Len(events) : \E k \in (j + 1)..Len(events) :
        /\ IsEntry(i) /\ IsExit(j) /\ IsExit(k)
        /\ SameKey(events[i], events[j]) /\ SameKey(events[i], events[k])
        /\ NoneBetween(i, k, "ENTRY")
        /\ events[j].timestamp - events[i].timestamp = 1000000
        /\ InPair(events[j], 2)

\* The step took one more event from the input, of the given type.
Observed(type) ==
    /\ Len(events') = Len(events) + 1
    /\ events'[Len(events')].entry_type = type

\* C3: a step that observes an Exit whose key has no open entry appends
\* nothing to the completed intervals, leaves the open-entry table and so
\* unmatched_count as they were, and leaves the run reading the file.
C3_DropLaw ==
    [][ (Observed("EXIT") /\ ~KeyOpen(OpenEntries, events'[Len(events')]))
        => /\ CompletedPairs' = CompletedPairs
           /\ OpenEntries' = OpenEntries
           /\ unmatched_count(OpenEntries') = unmatched_count(OpenEntries)
           /\ pc' = "analyze_file" ]_vars

\* C3, witness: the line just read was an Exit that was dropped, on a
\* thread with nothing open, while another thread has an open entry.
C3_Witness ==
    /\ pc = "analyze_file"
    /\ events # << >>
    /\ LET x == events[Len(events)]
       IN  /\ x.entry_type = "EXIT"
           /\ x.line_num = line_num
           /\ ~InPair(x, 2)
           /\ x.thread_id \notin DOMAIN OpenEntries
    /\ OpenEntries # EmptyDict

\* C5: every completed interval pairs an Entry and an Exit of one thread
\* and one method; and a step that observes an Exit leaves every open
\* entry of another thread or of another method in the table.
C5_SameKeyOnly ==
    /\ [](\A p \in 1..Len(CompletedPairs) :
              /\ CompletedPairs[p][1].entry_type = "ENTRY"
              /\ CompletedPairs[p][2].entry_type = "EXIT"
              /\ CompletedPairs[p][1].thread_id = CompletedPairs[p][2].thread_id
              /\ CompletedPairs[p][1].method_name = CompletedPairs[p][2].method_name)
    /\ [][ Observed("EXIT")
           => \A t \in DOMAIN OpenEntries : \A m \in DOMAIN OpenEntries[t] :
                  (t # events'[Len(events')].thread_id \/ m # events'[Len(events')].method_name)
                  => KeyOpen(OpenEntries', OpenEntries[t][m])
                     /\ OpenEntries'[t][m] = OpenEntries[t][m] ]_vars

\* C5, witness: an interval completed on one thread while an entry that
\* the other thread had opened before that Exit is still open.
C5_Witness ==
    \E p \in 1..Len(CompletedPairs) : \E t \in DOMAIN OpenEntries :
        \E m \in DOMAIN OpenEntries[t] :
            /\ t # CompletedPairs[p][2].thread_id
            /\ OpenEntries[t][m].line_num < CompletedPairs[p][2].line_num
            /\ m = CompletedPairs[p][2].method_name

\* C6: the completed intervals are in the input order of their Exit
\* events, and every step either leaves the sequence as it is or appends
\* to it one interval, that of the Exit just observed; report_results
\* leaves it as it is.
C6_AppendOnly ==
    /\ [](\A p \in 1..Len(CompletedPairs) : \A q \in (p + 1)..Len(CompletedPairs) :
              CompletedPairs[p][2].line_num < CompletedPairs[q][2].line_num)
    /\ [][ \/ CompletedPairs' = CompletedPairs
           \/ /\ Observed("EXIT")
              /\ pc' = "analyze_file"
              /\ Len(CompletedPairs') = Len(CompletedPairs) + 1
              /\ SubSeq(CompletedPairs', 1, Len(CompletedPairs)) = CompletedPairs
              /\ CompletedPairs'[Len(CompletedPairs')][2] = events'[Len(events')] ]_vars

\* C6, witness: the report was printed after two intervals completed.
C6_Witness ==
    pc = "returned" /\ Len(CompletedPairs) >= 2 /\ report[1].total_pairs = 2

\* The line read last matches the structural pattern and its timestamp
\* token is malformed.
MalformedTimestamp ==
    line_num > 0 /\ trace_pattern_match(line) /\ ~strptime_ok(line.timestamp_str)

\* The tail of the line read last has two words or more and holds the
\* entry pattern or the exit pattern.
HoldsPattern ==
    /\ Len(split(line.rest_of_line)) >= 2
    /\ \/ contains(analyzers[1].entry_pattern, line.rest_of_line)
       \/ contains(analyzers[1].exit_pattern, line.rest_of_line)

\* C4, as stated: every line that matches the structural pattern and
\* carries a malformed timestamp aborts the run; it is never skipped.
C4_EveryMalformedAborts ==
    MalformedTimestamp => pc = "sys_exit_1"

\* C4, amended: a line that matches the structural pattern, holds the
\* entry or the exit pattern in a tail of two words or more and carries a
\* malformed timestamp aborts the run, with no report; a malformed
\* timestamp on a line that holds neither pattern, or whose tail is one
\* word, is not looked at and the line is skipped like the lines that do
\* not match the structure: no event comes of it and the run goes on.
C4_FailFast ==
    /\ (MalformedTimestamp /\ HoldsPattern) <=> pc = "sys_exit_1"
    /\ pc = "sys_exit_1" => report = << >>
    /\ (line_num > 0 /\ (~trace_pattern_match(line) \/ ~HoldsPattern))
           => \A i \in 1..Len(events) : events[i].line_num # line_num

\* C4, witness: the run aborted on its second line, a line with the entry
\* pattern and month 13, after a first line that was skipped although its
\* timestamp is malformed too.
C4_Witness ==
    /\ pc = "sys_exit_1"
    /\ line_num = 2
    /\ line.timestamp_str = TokBadMonth
    /\ events = << >>

C8_SortedStable ==
    pc = "returned" =>
        \A i \in 1..Len(report[1].slow) : \A j \in (i + 1)..Len(report[1].slow) :
            /\ report[1].slow[i][3] >= report[1].slow[j][3]
            /\ report[1].slow[i][3] = report[1].slow[j][3]
                   => report[1].slow[i][2].line_num < report[1].slow[j][2].line_num

\* C8, witness: a report of two slow intervals of equal duration.
C8_Witness ==
    /\ pc = "returned"
    /\ Len(report[1].slow) = 2
    /\ report[1].slow[1][3] = report[1].slow[2][3]

\* C8, second witness: a report of two slow intervals where the longer one
\* completed last and is listed first.
C8_WitnessReordered ==
    /\ pc = "returned"
    /\ Len(report[1].slow) = 2
    /\ report[1].slow[1][3] > report[1].slow[2][3]
    /\ report[1].slow[1] = CompletedPairs[2]

\* The Exit events that found an open entry: the nearest earlier event of
\* the key is an Entry.
MatchedExits ==
    {j \in 1..Len(events) :
        /\ IsExit(j)
        /\ \E i \in 1..(j - 1) :
               /\ IsEntry(i) /\ SameKey(events[i], events[j])
               /\ NoneBetween(i, j, "ENTRY") /\ NoneBetween(i, j, "EXIT")}

\* C9: at end of input total_pairs is the number of Exit events that found
\* an open entry and unmatched_count is the number of keys in the
\* open-entry table; one Entry line and no Exit give 0 and 1.
C9_Counts ==
    pc = "returned" =>
        /\ report[1].total_pairs = Cardinality(MatchedExits)
        /\ report[1].unmatched_count = Cardinality(OpenKeys(OpenEntries))
        /\ (Len(events) = 1 /\ IsEntry(1))
               => report[1].total_pairs = 0 /\ report[1].unmatched_count = 1

\* C9, witness: a report after an Exit that matched, an Exit that was
\* dropped and an Entry left open.
C9_Witness ==
    /\ pc = "returned"
    /\ report[1].total_pairs = 1
    /\ report[1].unmatched_count = 1
    /\ \E j \in 1..Len(events) : IsExit(j) /\ j \notin MatchedExits

\* C10: two instances made with the same patterns and threshold and fed
\* the same lines share no object, hold equal completed intervals and
\* equal open entries after every line, and print equal reports.
C10_ReplayDeterminism ==
    Len(analyzers) = 2 =>
        /\ {analyzers[1].open_entries, analyzers[1].completed_pairs}
               \cap {analyzers[2].open_entries, analyzers[2].completed_pairs} = {}
        /\ heap[analyzers[1].completed_pairs] = heap[analyzers[2].completed_pairs]
        /\ DOMAIN heap[analyzers[1].open_entries] = DOMAIN heap[analyzers[2].open_entries]
        /\ \A t \in DOMAIN heap[analyzers[1].open_entries] :
               heap[analyzers[1].open_entries][t] = heap[analyzers[2].open_entries][t]
        /\ pc = "returned" => report[1] = report[2]

\* C10, witness: both instances printed a report with a slow interval, an
\* unmatched entry and statistics.
C10_Witness ==
    /\ Len(analyzers) = 2
    /\ pc = "returned"
    /\ Len(report[2].slow) >= 1
    /\ report[2].unmatched_count >= 1
    /\ report[2].statistics # << >>

\* The sum of the durations of the first n completed intervals.
RECURSIVE DurationsTo(_)
DurationsTo(n) == IF n = 0 THEN 0 ELSE DurationsTo(n - 1) + CompletedPairs[n][3]

\* C11: when an interval completed, the minimum and the maximum of the
\* report bound the duration of every completed interval, slow or not, and
\* are durations of completed intervals, and the mean is the sum of all
\* the durations over their number; when none completed there are no
\* statistics.
C11_StatisticsOverAll ==
    pc = "returned" =>
        IF CompletedPairs = << >>
        THEN report[1].statistics = << >>
        ELSE /\ Len(report[1].statistics) = 1
             /\ LET st == report[1].statistics[1]
                IN  /\ \A p \in 1..Len(CompletedPairs) :
                           st.minimum <= CompletedPairs[p][3] /\ CompletedPairs[p][3] <= st.maximum
                    /\ \E p \in 1..Len(CompletedPairs) : CompletedPairs[p][3] = st.minimum
                    /\ \E p \in 1..Len(CompletedPairs) : CompletedPairs[p][3] = st.maximum
                    /\ st.count = Len(CompletedPairs)
                    /\ st.sum = DurationsTo(Len(CompletedPairs))

\* C11, witness: a report of two intervals, one slow and one under the
\* threshold, whose minimum is the duration under the threshold.
C11_Witness ==
    /\ pc = "returned"
    /\ Len(CompletedPairs) = 2
    /\ Len(report[1].slow) = 1
    /\ report[1].statistics # << >>
    /\ report[1].statistics[1].minimum < analyzers[1].threshold_seconds
    /\ report[1].statistics[1].maximum >= analyzers[1].threshold_seconds

\* The line read last gave an event of the given type.
LineEvent(type) ==
    \E i \in 1..Len(events) : events[i].line_num = line_num /\ events[i].entry_type = type

\* The line read last matches the structural pattern and its tail holds
\* the entry pattern and the exit pattern.
BothPatterns ==
    /\ line_num > 0
    /\ trace_pattern_match(line)
    /\ contains(analyzers[1].entry_pattern, line.rest_of_line)
    /\ contains(analyzers[1].exit_pattern, line.rest_of_line)

\* An Exit event comes only of a structurally matching line whose tail
\* holds the exit pattern and not the entry pattern.
ExitOnlyWithoutEntryPattern ==
    LineEvent("EXIT") =>
        /\ trace_pattern_match(line)
        /\ contains(analyzers[1].exit_pattern, line.rest_of_line)
        /\ ~contains(analyzers[1].entry_pattern, line.rest_of_line)

\* C12, as stated: a structurally matching line whose tail holds both
\* patterns gives an Entry event and never an Exit event; an Exit event
\* comes only of a tail with the exit pattern and without the entry
\* pattern.
C12_BothGivesEntry ==
    /\ BothPatterns => LineEvent("ENTRY") /\ ~LineEvent("EXIT")
    /\ ExitOnlyWithoutEntryPattern

\* C12, amended: a structurally matching line whose tail holds both
\* patterns never gives an Exit event, and gives an Entry event exactly
\* when the tail has two words or more and the timestamp is well formed
\* (a tail of one word gives nothing, a malformed timestamp aborts the
\* run); an Exit event comes only of a tail with the exit pattern and
\* without the entry pattern.
C12_EntryPatternFirst ==
    /\ BothPatterns =>
           /\ ~LineEvent("EXIT")
           /\ LineEvent("ENTRY") <=>
                  (Len(split(line.rest_of_line)) >= 2 /\ strptime_ok(line.timestamp_str))
           /\ (Len(split(line.rest_of_line)) >= 2 /\ ~strptime_ok(line.timestamp_str))
                  => pc = "sys_exit_1"
    /\ ExitOnlyWithoutEntryPattern

\* C12, witness: the line read last holds "d E d R" under the patterns
\* "d E" and "d R" and gave an Entry event.
C12_Witness ==
    /\ BothPatterns
    /\ line.rest_of_line = S_dEdR
    /\ analyzers[1].entry_pattern = S_dE
    /\ LineEvent("ENTRY")

\* The line read last begins with a digit sequence followed by "|".
HasLineNumber ==
    line_num > 0 /\ line.lead = 0 /\ line.prefix # << >> /\ isdigit(line.prefix[1])

\* The line L that the line read last is a line number and "|" put in
\* front of: what follows the first "|".  Whitespace after the "|" is
\* leading whitespace of L when L has no segment of its own.
Unprefixed ==
    [line EXCEPT !.prefix = Tail(line.prefix),
                 !.lead = IF Len(line.prefix) = 1 THEN line.gap ELSE 0]

\* L begins with the timestamp token: no whitespace and no segment before it.
BeginsWithBody(l) == l.lead = 0 /\ l.prefix = << >> /\ l.gap = 0

\* C13, as stated: a line made of a digit sequence, "|" and a line L parses
\* to what L parses to: the same event, or None.
C13_PrefixIgnored ==
    HasLineNumber =>
        parse_line(analyzers[1], line, line_num)
            = parse_line(analyzers[1], Unprefixed, line_num)

\* C13, amended: a line made of a digit sequence, "|" and a line L parses
\* to what L parses to when L begins with the timestamp token or parses to
\* None; one prefix is removed and the rest is not stripped again, so when
\* L begins with whitespace or with a line number of its own the prefixed
\* line parses to None whatever L parses to.
C13_PrefixRemovedOnce ==
    HasLineNumber =>
        /\ parse_line(analyzers[1], line, line_num)
               = IF BeginsWithBody(Unprefixed)
                 THEN parse_line(analyzers[1], Unprefixed, line_num)
                 ELSE None
        /\ parse_line(analyzers[1], Unprefixed, line_num) = None
               => parse_line(analyzers[1], line, line_num) = None

\* C13, witness: the line read last is "5|" before a line that begins
\* with the timestamp token, and it gave the Entry event of that line.
C13_Witness ==
    /\ HasLineNumber
    /\ BeginsWithBody(Unprefixed)
    /\ LineEvent("ENTRY")
    /\ parse_line(analyzers[1], Unprefixed, line_num).value # << >>

\* The method name the code gives to the events of a pattern.
Unknown == <<"u", "n", "k", "n", "o", "w", "n">>
MethodOf(pattern) == IF split(pattern) # << >> THEN split(pattern)[1] ELSE Unknown

\* C14, as stated: every Entry event carries the first word of the entry
\* pattern as its method_name and every Exit event the first word of the
\* exit pattern, whatever the line holds.
C14_FirstWordOfPattern ==
    \A i \in 1..Len(events) :
        /\ IsEntry(i) => /\ split(analyzers[1].entry_pattern) # << >>
                         /\ events[i].method_name = split(analyzers[1].entry_pattern)[1]
        /\ IsExit(i) => /\ split(analyzers[1].exit_pattern) # << >>
                        /\ events[i].method_name = split(analyzers[1].exit_pattern)[1]

\* C14, amended: every Entry event carries the first word of the entry
\* pattern and every Exit event the first word of the exit pattern,
\* whatever the line holds; the events of a pattern without a word carry
\* "unknown".
C14_MethodFromPattern ==
    \A i \in 1..Len(events) :
        /\ IsEntry(i) => events[i].method_name = MethodOf(analyzers[1].entry_pattern)
        /\ IsExit(i) => events[i].method_name = MethodOf(analyzers[1].exit_pattern)

\* C14, witness: under the patterns "d E" and "" an Entry event named "d"
\* and an Exit event named "unknown".
C14_Witness ==
    /\ analyzers[1].exit_pattern = << >>
    /\ \E i \in 1..Len(events) : IsExit(i) /\ events[i].method_name = Unknown
    /\ \E i \in 1..Len(events) : IsEntry(i) /\ events[i].method_name = <<"d">>

\* C15: in every completed interval the Entry is the latest Entry of the
\* Exit's key before the Exit, no Entry and no Exit is in two completed
\* intervals, and an Exit that follows an Exit of its key with no Entry of
\* the key between them is in none.
C15_LastOpenWins ==
    /\ \A p \in 1..Len(CompletedPairs) :
           \E i \in 1..Len(events) : \E j \in (i + 1)..Len(events) :
               /\ events[i] = CompletedPairs[p][1] /\ events[j] = CompletedPairs[p][2]
               /\ IsEntry(i) /\ IsExit(j) /\ SameKey(events[i], events[j])
               /\ NoneBetween(i, j, "ENTRY")
    /\ \A p \in 1..Len(CompletedPairs) : \A q \in 1..Len(CompletedPairs) :
           p # q => /\ CompletedPairs[p][1] # CompletedPairs[q][1]
                    /\ CompletedPairs[p][2] # CompletedPairs[q][2]
    /\ \A j \in 1..Len(events) : \A k \in (j + 1)..Len(events) :
           ( /\ IsExit(j) /\ IsExit(k) /\ SameKey(events[j], events[k])
             /\ NoneBetween(j, k, "ENTRY") )
           => ~InPair(events[k], 2)

\* C15, witness: Entry, Entry, Exit, Exit of one key: the second Entry and
\* the first Exit are the one completed interval.
C15_Witness ==
    /\ Len(events) = 4 /\ Len(CompletedPairs) = 1
    /\ IsEntry(1) /\ IsEntry(2) /\ IsExit(3) /\ IsExit(4)
    /\ SameKey(events[1], events[2]) /\ SameKey(events[2], events[3])
    /\ SameKey(events[3], events[4])
    /\ CompletedPairs[1][1] = events[2] /\ CompletedPairs[1][2] = events[3]

\* C16: an Exit earlier than the open Entry it finds gives a completed
\* interval of negative duration; the report counts every such interval
\* in total_pairs and in the statistics and, the threshold being at least
\* 0, holds none of them in the slow list.
C16_NegativeKept ==
    /\ \A i \in 1..Len(events) : \A j \in (i + 1)..Len(events) :
           ( /\ IsEntry(i) /\ IsExit(j) /\ SameKey(events[i], events[j])
             /\ NoneBetween(i, j, "ENTRY") /\ NoneBetween(i, j, "EXIT")
             /\ events[j].timestamp < events[i].timestamp )
           => \E p \in 1..Len(CompletedPairs) :
                  /\ CompletedPairs[p]
                         = <<events[i], events[j], events[j].timestamp - events[i].timestamp>>
                  /\ CompletedPairs[p][3] < 0
    /\ (pc = "returned" /\ analyzers[1].threshold_seconds >= 0) =>
           /\ report[1].total_pairs = Len(CompletedPairs)
           /\ \A p \in 1..Len(CompletedPairs) :
                  CompletedPairs[p][3] < 0 =>
                      /\ report[1].statistics # << >>
                      /\ report[1].statistics[1].count = Len(CompletedPairs)
                      /\ report[1].statistics[1].sum = DurationsTo(Len(CompletedPairs))
                      /\ report[1].statistics[1].minimum <= CompletedPairs[p][3]
                      /\ report[1].statistics[1].maximum >= CompletedPairs[p][3]
                      /\ \A q \in 1..Len(report[1].slow) :
                             report[1].slow[q] # CompletedPairs[p]
           /\ \A q \in 1..Len(report[1].slow) : report[1].slow[q][3] >= 0

\* C16, witness: a report of two intervals, one of negative duration and
\* one in the slow list; the minimum is negative.
C16_Witness ==
    /\ pc = "returned"
    /\ Len(CompletedPairs) = 2
    /\ \E p \in 1..2 : CompletedPairs[p][3] < 0
    /\ Len(report[1].slow) = 1
    /\ report[1].statistics[1].minimum < 0
    /\ report[1].total_pairs = 2

\* The first words of the two patterns differ.
MethodNamesDiffer ==
    /\ split(analyzers[1].entry_pattern) # << >>
    /\ split(analyzers[1].exit_pattern) # << >>
    /\ split(analyzers[1].entry_pattern)[1] # split(analyzers[1].exit_pattern)[1]

\* The threads of the Entry events.
EntryThreads == {events[i].thread_id : i \in {j \in 1..Len(events) : IsEntry(j)}}

C18_OneOpenPerThread ==
    /\ \A t \in DOMAIN OpenEntries : Cardinality(DOMAIN OpenEntries[t]) <= 1
    /\ unmatched_count(OpenEntries)
           <= Cardinality({events[i].thread_id : i \in {j \in 1..Len(events) : IsEntry(j)}})
    /\ pc = "returned" =>
           report[1].unmatched_count
               <= Cardinality({events[i].thread_id : i \in {j \in 1..Len(events) : IsEntry(j)}})

\* C18, witness: a report after one thread logged two Entry events and no
\* Exit: one unmatched entry.
C18_Witness ==
    /\ pc = "returned"
    /\ report[1].unmatched_count = 1
    /\ \E i \in 1..Len(events) : \E j \in (i + 1)..Len(events) :
           IsEntry(i) /\ IsEntry(j) /\ events[i].thread_id = events[j].thread_id
    /\ \A i \in 1..Len(events) : IsEntry(i)

\* C19: after every prefix of the input the Entry events are the completed
\* intervals, the open entries and the overwritten Entry events; so the
\* pairs and the open entries together are at most the Entry events, and
\* the pairs at most the Exit events; the report's counts are these.
C19_Conservation ==
    LET entries == Cardinality({i \in 1..Len(events) : IsEntry(i)})
        exits == Cardinality({i \in 1..Len(events) : IsExit(i)})
        overwritten == Cardinality({i \in 1..Len(events) : Overwritten(i)})
    IN  /\ entries = Len(CompletedPairs) + Cardinality(OpenKeys(OpenEntries)) + overwritten
        /\ total_pairs(CompletedPairs) + unmatched_count(OpenEntries) <= entries
        /\ total_pairs(CompletedPairs) <= exits
        /\ pc = "returned" =>
               /\ report[1].total_pairs + report[1].unmatched_count <= entries
               /\ report[1].total_pairs <= exits

\* C19, witness: Entry, Entry, Exit, Entry of one key: one overwritten, one
\* completed, one open.
C19_Witness ==
    /\ Len(events) = 4
    /\ Cardinality({i \in 1..Len(events) : Overwritten(i)}) = 1
    /\ Len(CompletedPairs) = 1
    /\ Cardinality(OpenKeys(OpenEntries)) = 1
    /\ \A i \in 1..Len(events) : SameKey(events[i], events[1])

\* C20: between the steps of the loop no thread of the open-entry table
\* has an empty method map.
C20_NoEmptyThread ==
    \A t \in DOMAIN OpenEntries : DOMAIN OpenEntries[t] # {}

\* C20, witness: two threads logged an Entry and one of them its Exit: the
\* table holds the other thread alone.
C20_Witness ==
    /\ Len(CompletedPairs) = 1
    /\ Cardinality(DOMAIN OpenEntries) = 1
    /\ \A t \in DOMAIN OpenEntries : t # CompletedPairs[1][1].thread_id
    /\ Cardinality(EntryThreads) = 2

=============================================================================
